---- MODULE Spec2Model ----
(***************************************************************************)
(* Mutant execution and classification engine of the mutation-testing      *)
(* project: src/src/mutant_tester.py (MutantTester), src/src/test_runner.py*)
(* (JUnitTestRunner) and the workflow of src/src/app.py (App).             *)
(*                                                                         *)
(* Two specifications share the variables:                                 *)
(*   Spec          _evaluate_mutant and get_mutation_summary applied to    *)
(*                 run sets drawn from bounded sets (pure functions of     *)
(*                 the run set);                                           *)
(*   SpecPipeline  run_mutant_tester (baseline run, then one pipeline per  *)
(*                 mutant) followed by get_test_results, over a results    *)
(*                 directory.                                              *)
(***************************************************************************)
EXTENDS Integers, Sequences, FiniteSets, Bags, TLC

(***************************************************************************)
(* Bounds of the model.                                                    *)
(***************************************************************************)
\* Most tests one generated result document lists (all classes together).
MaxTests == 2
\* Most mutants of a generated run set / of a batch.
MaxMutants == 2

\* The calls of App.run_mutant_tester on one project.
MaxRuns == 2

(***************************************************************************)
(* Program constants.                                                      *)
(***************************************************************************)
ORIGINAL_SRC_TEST_RESULTS_NAME == "original"

\* MutantStatus, by value.
LIVE == "live"
KILLED == "killed"
STILLBORN == "stillborn"
TRIVIAL == "trivial"

MutantStatus == {LIVE, KILLED, STILLBORN, TRIVIAL}

\* Python's None.
None == "None"

(***************************************************************************)
(* Data: the dataclasses of util_classes.py, as records.  The fields no    *)
(* engine code reads (error_message, passed_tests, failed_tests,           *)
(* total_tests, timestamp) are left out.                                   *)
(***************************************************************************)
TestResult(name, uid, passed) ==
    [test_name |-> name, test_unique_id |-> uid, is_passed |-> passed]

TestClassResult(name, results) ==
    [test_class_name |-> name, test_results |-> results]

TestSuiteResult(classes, compiled, error) ==
    [test_classes |-> classes, compiled |-> compiled, compile_error |-> error]

(***************************************************************************)
(* The inputs: run ids, tests and result documents of bounded size.        *)
(***************************************************************************)
IdNames == <<"M1", "M2", "M3", "M4", "M5", "M6">>

MutantIds == {IdNames[i] : i \in 1..MaxMutants}

RunIds == MutantIds \cup {ORIGINAL_SRC_TEST_RESULTS_NAME}

\* The tests of the shared test tree: a parameterised test t1 run twice (two
\* unique ids, one test name) and a plain test t2.
Tests == <<[id |-> "t1[1]", name |-> "t1"],
           [id |-> "t1[2]", name |-> "t1"],
           [id |-> "t2", name |-> "t2"]>>

\* The test lists of one class over the tests `idx` (indices into Tests), at
\* most n long, in the order of the test tree (a test may be listed twice).
TestLists(idx, n) ==
    LET raw == UNION {[1..k -> idx \X BOOLEAN] : k \in 0..n}
        ordered == {s \in raw : \A i \in 1..Len(s) : \A j \in i..Len(s) : s[i][1] <= s[j][1]}
    IN  {[i \in 1..Len(s) |-> TestResult(Tests[s[i][1]].name, Tests[s[i][1]].id, s[i][2])]
            : s \in ordered}

\* The class lists with at most n tests in all: one entry per class name that
\* has tests.
ClassLists(idx, n) ==
    LET lists == TestLists(idx, n)
        Entry(c, l) == IF l = <<>> THEN <<>> ELSE <<TestClassResult(c, l)>>
    IN  {Entry("ATest", a) \o Entry("BTest", b) :
            <<a, b>> \in {p \in lists \X lists : Len(p[1]) + Len(p[2]) <= n}}

\* The documents of a run that compiled, and of a run of a mutant: a document
\* with compiled = false may hold any test_classes.
CompiledDocs(lists) == {TestSuiteResult(l, TRUE, None) : l \in lists}

FailedDocs(lists) == {TestSuiteResult(l, FALSE, "Compilation failed") : l \in lists}

\* The document run_test_runner writes on a compile failure.
CompileErrorDoc == TestSuiteResult(<<>>, FALSE, "Compilation failed")

\* Run sets over the mutant ids `ids`: with or without a baseline.
RunSetsOver(ids, baseDocs, mutantDocs) ==
    LET mutants == UNION {[D -> mutantDocs] : D \in SUBSET ids}
    IN  mutants \cup
        {m @@ (ORIGINAL_SRC_TEST_RESULTS_NAME :> b) : m \in mutants, b \in baseDocs}

\* Deep run sets: one mutant, documents that differ in classes and tests.
DeepLists == ClassLists({1, 3}, MaxTests)

DeepRunSets ==
    RunSetsOver({IdNames[1]}, CompiledDocs(DeepLists) \cup {CompileErrorDoc},
                CompiledDocs(DeepLists) \cup FailedDocs(DeepLists))

\* Wide run sets: several mutants, every document lists the three tests of the
\* tree under one class.
WideLists ==
    {<<TestClassResult("ATest",
        [i \in 1..3 |-> TestResult(Tests[i].name, Tests[i].id, p[i])])>>
        : p \in [1..3 -> BOOLEAN]}

WideRunSets ==
    RunSetsOver(MutantIds, CompiledDocs(WideLists),
                CompiledDocs(WideLists) \cup {CompileErrorDoc})

RunSets == DeepRunSets \cup WideRunSets

(***************************************************************************)
(* MutantTester._evaluate_mutant                                           *)
(***************************************************************************)
\* A bug for FindOriginalClass: the class name is not compared, the first
\* baseline class stands for every class of the mutant.
FindOriginalClassAnyName(original_classes, name, i) ==
    IF i > Len(original_classes) THEN 0 ELSE i

\* Lines 198-202: next((c for c in original_results.test_classes if
\* c.test_class_name == name), None), as the index of the first match from i
\* on (0: None).
RECURSIVE FindOriginalClass(_, _, _)
FindOriginalClass(original_classes, name, i) ==
    IF i > Len(original_classes) THEN 0
    ELSE IF original_classes[i].test_class_name = name THEN i
    ELSE FindOriginalClass(original_classes, name, i + 1)

\* Lines 214-218: next((t for t in original_class.test_results if
\* t.test_unique_id == uid), None), as the index of the first match from i on.
RECURSIVE FindOriginalTest(_, _, _)
FindOriginalTest(original_tests, uid, i) ==
    IF i > Len(original_tests) THEN 0
    ELSE IF original_tests[i].test_unique_id = uid THEN i
    ELSE FindOriginalTest(original_tests, uid, i + 1)

\* A bug for CountPair: == for != at line 228.
CountPairEqual(acc, mutant_test, original_test) ==
    [total_tests |-> acc.total_tests + 1,
     different_results |->
        IF mutant_test.is_passed = original_test.is_passed
        THEN acc.different_results + 1
        ELSE acc.different_results]

\* Lines 226-230: the counters after one matched pair.
CountPair(acc, mutant_test, original_test) ==
    [total_tests |-> acc.total_tests + 1,
     different_results |->
        IF mutant_test.is_passed # original_test.is_passed
        THEN acc.different_results + 1
        ELSE acc.different_results]

\* The inner loop (lines 210-230) from test i on: the counters after it.
RECURSIVE CompareTests(_, _, _, _)
CompareTests(mutant_tests, original_class, i, acc) ==
    IF i > Len(mutant_tests) THEN acc
    ELSE LET mutant_test == mutant_tests[i]
             k == FindOriginalTest(original_class.test_results,
                                   mutant_test.test_unique_id, 1)
         IN  IF k = 0
             THEN CompareTests(mutant_tests, original_class, i + 1, acc)
             ELSE CompareTests(mutant_tests, original_class, i + 1,
                    CountPair(acc, mutant_test, original_class.test_results[k]))

\* The outer loop (lines 194-230) from class i on.
RECURSIVE CompareClasses(_, _, _, _)
CompareClasses(mutant_classes, original_classes, i, acc) ==
    IF i > Len(mutant_classes) THEN acc
    ELSE LET mutant_class == mutant_classes[i]
             k == FindOriginalClass(original_classes, mutant_class.test_class_name, 1)
         IN  IF k = 0
             THEN CompareClasses(mutant_classes, original_classes, i + 1, acc)
             ELSE CompareClasses(mutant_classes, original_classes, i + 1,
                    CompareTests(mutant_class.test_results, original_classes[k], 1, acc))

\* The counters different_results and total_tests at line 232.
CompareResults(mutant_results, original_results) ==
    CompareClasses(mutant_results.test_classes, original_results.test_classes, 1,
                   [total_tests |-> 0, different_results |-> 0])

\* A bug for DetermineStatus: the test of line 236 before that of line 233.
DetermineStatusTrivialFirst(different_results, total_tests) ==
    IF different_results = total_tests THEN TRIVIAL
    ELSE IF different_results = 0 THEN LIVE
    ELSE KILLED

\* A bug for DetermineStatus: the branch of lines 236-238 is missing.
DetermineStatusNoTrivial(different_results, total_tests) ==
    IF different_results = 0 THEN LIVE ELSE KILLED

\* Lines 232-241.
DetermineStatus(different_results, total_tests) ==
    IF different_results = 0 THEN LIVE
    ELSE IF different_results = total_tests THEN TRIVIAL
    ELSE KILLED

Return(v) == [raised |-> FALSE, value |-> v]

Raise(e) == [raised |-> TRUE, value |-> e]

\* A bug for IsStillborn: the check of lines 181-183 is missing.
IsStillbornOnlyMissing(mutation_id, test_results) ==
    mutation_id \notin DOMAIN test_results

\* Lines 174-183: a missing result, or one that did not compile.
IsStillborn(mutation_id, test_results) ==
    \/ mutation_id \notin DOMAIN test_results
    \/ ~test_results[mutation_id].compiled

\* Lines 185-188: no baseline to compare with.
OriginalMissing(test_results) ==
    ORIGINAL_SRC_TEST_RESULTS_NAME \notin DOMAIN test_results

\* A bug for EvaluateMutant: the baseline is looked up before the mutant.
EvaluateMutantBaselineFirst(mutation_id, test_results) ==
    IF OriginalMissing(test_results)
    THEN Raise("ValueError: Original test results not found")
    ELSE IF IsStillborn(mutation_id, test_results) THEN Return(STILLBORN)
    ELSE LET c == CompareResults(test_results[mutation_id],
                                 test_results[ORIGINAL_SRC_TEST_RESULTS_NAME])
         IN  Return(DetermineStatus(c.different_results, c.total_tests))

\* _evaluate_mutant(mutation_id, test_results): the status returned, or the
\* ValueError raised.
EvaluateMutant(mutation_id, test_results) ==
    IF IsStillborn(mutation_id, test_results) THEN Return(STILLBORN)
    ELSE IF OriginalMissing(test_results)
    THEN Raise("ValueError: Original test results not found")
    ELSE LET c == CompareResults(test_results[mutation_id],
                                 test_results[ORIGINAL_SRC_TEST_RESULTS_NAME])
         IN  Return(DetermineStatus(c.different_results, c.total_tests))

(***************************************************************************)
(* MutantTester.get_mutation_summary                                       *)
(***************************************************************************)
\* (killed_total / effective_mutants) * 100 as an exact fraction in lowest
\* terms (Python computes the nearest float).
RECURSIVE Gcd(_, _)
Gcd(a, b) == IF b = 0 THEN a ELSE Gcd(b, a % b)

Fraction(n, d) == [num |-> n \div Gcd(n, d), den |-> d \div Gcd(n, d)]

\* Line 279: f"{test_class.test_class_name}#{test_result.test_name}".
TestKey(test_class, test_result) ==
    test_class.test_class_name \o "#" \o test_result.test_name

\* Line 278: the tests of a result that are credited in test_impact.
Credited(test_result) == ~test_result.is_passed

\* Lines 277-280 from test i on: test_impact after the tests of one class.
RECURSIVE ImpactOfTests(_, _, _)
ImpactOfTests(test_class, i, test_impact) ==
    IF i > Len(test_class.test_results) THEN test_impact
    ELSE LET test_result == test_class.test_results[i]
         IN  ImpactOfTests(test_class, i + 1,
                IF Credited(test_result)
                THEN test_impact (+) SetToBag({TestKey(test_class, test_result)})
                ELSE test_impact)

\* Lines 276-280 from class i on: test_impact after one mutant's result.
RECURSIVE ImpactOfClasses(_, _, _)
ImpactOfClasses(test_classes, i, test_impact) ==
    IF i > Len(test_classes) THEN test_impact
    ELSE ImpactOfClasses(test_classes, i + 1,
            ImpactOfTests(test_classes[i], 1, test_impact))

\* A bug for TracksImpact: the check of line 275 is missing.
TracksImpactAlways(status) == status \in MutantStatus

\* Line 275: the statuses whose results are recorded in test_impact.
TracksImpact(status) == status \in {KILLED, TRIVIAL}

\* Lines 269-280: one turn of the loop, for mutant_id with its status.
ProcessMutant(acc, mutant_id, suite_result, status) ==
    [status_counts |-> [acc.status_counts EXCEPT ![status] = @ + 1],
     mutation_status |-> acc.mutation_status @@ (mutant_id :> status),
     test_impact |->
        IF TracksImpact(status)
        THEN ImpactOfClasses(suite_result.test_classes, 1, acc.test_impact)
        ELSE acc.test_impact]

\* Lines 264-280: the loop over the run ids `ids` still to visit; the exception
\* of _evaluate_mutant leaves the loop and the method.
RECURSIVE ProcessMutants(_, _, _)
ProcessMutants(ids, test_results, acc) ==
    IF ids = {} THEN Return(acc)
    ELSE LET mutant_id == CHOOSE id \in ids : TRUE
             rest == ids \ {mutant_id}
         IN  IF mutant_id = ORIGINAL_SRC_TEST_RESULTS_NAME
             THEN ProcessMutants(rest, test_results, acc)
             ELSE LET e == EvaluateMutant(mutant_id, test_results)
                  IN  IF e.raised THEN e
                      ELSE ProcessMutants(rest, test_results,
                            ProcessMutant(acc, mutant_id, test_results[mutant_id], e.value))

\* A bug for TotalMutants: the baseline is subtracted twice.
TotalMutantsLessTwo(test_results) == Cardinality(DOMAIN test_results) - 2

\* Line 258.
TotalMutants(test_results) == Cardinality(DOMAIN test_results) - 1

\* A bug for MutationScore: the stillborn mutants stay in the denominator.
MutationScoreOfAll(killed_total, stillborn_total, total_mutants) ==
    IF total_mutants > 0
    THEN Fraction(killed_total * 100, total_mutants)
    ELSE Fraction(0, 1)

\* Lines 285-288.
MutationScore(killed_total, stillborn_total, total_mutants) ==
    LET effective_mutants == total_mutants - stillborn_total
    IN  IF effective_mutants > 0
        THEN Fraction(killed_total * 100, effective_mutants)
        ELSE Fraction(0, 1)

\* get_mutation_summary(test_results): the summary returned, or the exception.
GetMutationSummary(test_results) ==
    LET loop == ProcessMutants(DOMAIN test_results, test_results,
                    [status_counts |-> [s \in MutantStatus |-> 0],
                     mutation_status |-> <<>>,
                     test_impact |-> EmptyBag])
        total_mutants == TotalMutants(test_results)
    IN  IF loop.raised THEN loop
        ELSE Return(
            [total_mutants |-> total_mutants,
             mutant_status_counts |-> loop.value.status_counts,
             mutation_score |->
                MutationScore(loop.value.status_counts[KILLED],
                              loop.value.status_counts[STILLBORN], total_mutants),
             test_impact |-> loop.value.test_impact,
             mutation_status |-> loop.value.mutation_status])

(***************************************************************************)
(* The file system and the external processes.                             *)
(***************************************************************************)
\* The baseline source tree (original_dir) before any run: path -> content.
SourceTree == ("A.java" :> "class A {}") @@ ("B.java" :> "class B {}")

\* What javac -d <src_dir>/build leaves in the source directory it compiled:
\* the classes of its sources, in place of what build held before.
BUILD_DIR == "build"

Compiled(tree) ==
    (BUILD_DIR :> ("classes of " \o tree["A.java"] \o " " \o tree["B.java"])) @@ tree

\* The mutations a generator may hand over: Mutation.id, MutationResult.rel_path
\* and Mutation.mutated_code.
RelPaths == {"A.java"}

Mutations ==
    {[id |-> m, rel_path |-> p, mutated_code |-> "class A {} // " \o m] :
        m \in MutantIds, p \in RelPaths}

\* mutation_results, flattened in the order of the two loops of lines 49-50.
Batches == UNION {[1..n -> Mutations] : n \in 0..MaxMutants}

\* A file of the results directory: the text parses into a TestSuiteResult
\* (lines 72-105 run through) or it does not.
Document(suite) == [parses |-> TRUE, suite |-> suite]

Unparsable == [parses |-> FALSE, suite |-> CompileErrorDoc]

\* The documents the external TestRunner leaves in test_results.json when it
\* exits with 0: the outcomes of the tests t1[1] and t2 of class ATest, or text
\* that read_test_results cannot parse.
RunnerLists ==
    {<<TestClassResult("ATest",
        <<TestResult(Tests[1].name, Tests[1].id, p[1]),
          TestResult(Tests[3].name, Tests[3].id, p[2])>>)>>
        : p \in [1..2 -> BOOLEAN]}

RunnerOutputs == {Document(d) : d \in CompiledDocs(RunnerLists)} \cup {Unparsable}

(***************************************************************************)
(* State.                                                                  *)
(***************************************************************************)
VARIABLES
    test_results,       \* the run set handed to the classifier (Dict[str, TestSuiteResult])
    ret,                \* the last call of the classifier and what it gave
    results_dir,        \* test_results_dir: run id -> the file <id>.json
    test_results_json,  \* the file test_results.json of the working directory, if any
    original_dir,       \* the baseline source tree: path -> content
    mutation_dir,       \* mutation_dir: mutant id -> the tree of its directory
    batch,              \* the mutations run_mutant_tester was called with
    pc,                 \* where run_mutant_tester is
    cur,                \* the run at hand: 0 the baseline, k the k-th mutation of batch
    started,            \* the mutations _apply_single_mutation was called for
    outcome,            \* how each finished run of this call ended
    invocations,        \* the calls of run_mutant_tester so far
    concurrent          \* the runs executed concurrently: run id -> where it is

classifier == <<test_results, ret>>

pipeline == <<results_dir, test_results_json, original_dir, mutation_dir, batch, pc,
              cur, started, outcome, invocations, concurrent>>

vars == <<test_results, ret, results_dir, test_results_json, original_dir,
          mutation_dir, batch, pc, cur, started, outcome, invocations, concurrent>>

NoCall == [op |-> "none", mutation_id |-> None, result |-> Return(None)]

\* A project right after App.init: empty results and mutations directories.
FreshProject ==
    /\ results_dir = <<>>
    /\ test_results_json = <<>>
    /\ original_dir = SourceTree
    /\ mutation_dir = <<>>
    /\ batch = <<>>
    /\ pc = "idle"
    /\ cur = 0
    /\ started = {}
    /\ outcome = <<>>
    /\ invocations = 0
    /\ concurrent = <<>>

(***************************************************************************)
(* Spec: the classifier on every run set of RunSets.                       *)
(***************************************************************************)
Init ==
    /\ test_results \in RunSets
    /\ ret = NoCall
    /\ FreshProject

\* self._evaluate_mutant(mutation_id, test_results)
CallEvaluateMutant(mutation_id) ==
    /\ ret' = [op |-> "_evaluate_mutant", mutation_id |-> mutation_id,
               result |-> EvaluateMutant(mutation_id, test_results)]
    /\ UNCHANGED test_results
    /\ UNCHANGED pipeline

\* self.get_mutation_summary(test_results)
CallGetMutationSummary ==
    /\ ret' = [op |-> "get_mutation_summary", mutation_id |-> None,
               result |-> GetMutationSummary(test_results)]
    /\ UNCHANGED test_results
    /\ UNCHANGED pipeline

Next ==
    \/ \E mutation_id \in MutantIds : CallEvaluateMutant(mutation_id)
    \/ CallGetMutationSummary

Spec == Init /\ [][Next]_vars

(***************************************************************************)
(* SpecPipeline: App.run_mutant_tester, then App.get_test_results.         *)
(***************************************************************************)
\* The run id of the run at hand (test_result_filename).
RunId == IF cur = 0 THEN ORIGINAL_SRC_TEST_RESULTS_NAME ELSE batch[cur].id

\* run_test_runner returned: on to the next mutation of the batch, if any.
Proceed ==
    IF cur < Len(batch)
    THEN /\ cur' = cur + 1
         /\ pc' = "apply"
    ELSE /\ cur' = cur
         /\ pc' = "done"

\* An exception leaves run_test_runner or _apply_single_mutation: nothing in
\* apply_and_test_mutations or run_mutant_tester catches it.
Propagate ==
    /\ pc' = "raised"
    /\ cur' = cur

Ended(how) == outcome' = outcome @@ (cur :> how)

\* App.run_mutant_tester(mutation_results), lines 178-179 of app.py:
\* test_original_code comes first.  The method may be called again once an
\* earlier call has returned or failed; the directories stay as that call left
\* them.
RunMutantTester(mutation_results) ==
    /\ pc \in {"idle", "done", "raised"}
    /\ invocations < MaxRuns
    /\ invocations' = invocations + 1
    /\ batch' = mutation_results
    /\ pc' = "compile"
    /\ cur' = 0
    /\ started' = {}
    /\ outcome' = <<>>
    /\ UNCHANGED <<results_dir, test_results_json, original_dir, mutation_dir>>
    /\ UNCHANGED <<concurrent, classifier>>

\* A bug for ApplySingleMutation: the mutated file is written at rel_path in
\* every directory of mutation_dir, as if the path lacked the mutant id.
ApplySingleMutationShared ==
    /\ pc = "apply"
    /\ started' = started \cup {cur}
    /\ LET mutation == batch[cur]
       IN  IF mutation.id \in DOMAIN mutation_dir
           THEN /\ Propagate
                /\ Ended("workspace error")
                /\ UNCHANGED mutation_dir
           ELSE /\ mutation_dir' =
                    [id \in DOMAIN mutation_dir \cup {mutation.id} |->
                        (mutation.rel_path :> mutation.mutated_code) @@
                            (IF id \in DOMAIN mutation_dir THEN mutation_dir[id]
                             ELSE original_dir)]
                /\ pc' = "compile"
                /\ UNCHANGED <<cur, outcome>>
    /\ UNCHANGED <<results_dir, test_results_json, original_dir, batch>>
    /\ UNCHANGED <<invocations, concurrent, classifier>>

\* A bug for ApplySingleMutation: copytree with dirs_exist_ok = True merges into
\* the directory that is there and the run goes on.
ApplySingleMutationOverwrites ==
    /\ pc = "apply"
    /\ started' = started \cup {cur}
    /\ LET mutation == batch[cur]
           existing == IF mutation.id \in DOMAIN mutation_dir
                       THEN mutation_dir[mutation.id] ELSE <<>>
       IN  mutation_dir' =
                (mutation.id :>
                    ((mutation.rel_path :> mutation.mutated_code) @@ original_dir
                        @@ existing)) @@ mutation_dir
    /\ pc' = "compile"
    /\ UNCHANGED <<cur, outcome>>
    /\ UNCHANGED <<results_dir, test_results_json, original_dir, batch>>
    /\ UNCHANGED <<invocations, concurrent, classifier>>

\* _apply_single_mutation, lines 123-131: copytree refuses an existing
\* directory; otherwise the copy of original_dir gets the file at rel_path
\* overwritten with mutated_code.
ApplySingleMutation ==
    /\ pc = "apply"
    /\ started' = started \cup {cur}
    /\ LET mutation == batch[cur]
       IN  IF mutation.id \in DOMAIN mutation_dir
           THEN /\ Propagate
                /\ Ended("workspace error")
                /\ UNCHANGED mutation_dir
           ELSE /\ mutation_dir' = mutation_dir @@
                    (mutation.id :>
                        ((mutation.rel_path :> mutation.mutated_code) @@ original_dir))
                /\ pc' = "compile"
                /\ UNCHANGED <<cur, outcome>>
    /\ UNCHANGED <<results_dir, test_results_json, original_dir, batch>>
    /\ UNCHANGED <<invocations, concurrent, classifier>>

\* _apply_single_mutation when the copy or the write fails (disk full,
\* permissions): the OSError leaves the method; the directory copytree made stays.
ApplySingleMutationFails ==
    /\ pc = "apply"
    /\ batch[cur].id \notin DOMAIN mutation_dir
    /\ started' = started \cup {cur}
    /\ mutation_dir' = mutation_dir @@ (batch[cur].id :> <<>>)
    /\ Propagate
    /\ Ended("workspace error")
    /\ UNCHANGED <<results_dir, test_results_json, original_dir, batch>>
    /\ UNCHANGED <<invocations, concurrent, classifier>>

\* A bug for CompileFails: the return of line 83 is missing, the tests are run.
CompileFailsThenTests ==
    /\ pc = "compile"
    /\ results_dir' = (RunId :> Document(CompileErrorDoc)) @@ results_dir
    /\ Ended("compile failure")
    /\ pc' = "test"
    /\ UNCHANGED <<test_results_json, original_dir, mutation_dir, batch, cur, started>>
    /\ UNCHANGED <<invocations, concurrent, classifier>>

\* A bug for CompileFails: the method returns without the write of lines 80-81.
CompileFailsUnrecorded ==
    /\ pc = "compile"
    /\ Ended("compile failure")
    /\ Proceed
    /\ UNCHANGED <<results_dir, test_results_json, original_dir, mutation_dir, batch,
                   started>>
    /\ UNCHANGED <<invocations, concurrent, classifier>>

\* run_test_runner, lines 66-83: javac exits with non-zero; the error document
\* is written under the run id and the method returns.
CompileFails ==
    /\ pc = "compile"
    /\ results_dir' = (RunId :> Document(CompileErrorDoc)) @@ results_dir
    /\ Ended("compile failure")
    /\ Proceed
    /\ UNCHANGED <<test_results_json, original_dir, mutation_dir, batch, started>>
    /\ UNCHANGED <<invocations, concurrent, classifier>>

\* run_test_runner, line 67: javac exits with 0 and build_dir, inside the
\* source directory of the run, holds the classes.
CompileSucceeds ==
    /\ pc = "compile"
    /\ IF cur = 0
       THEN /\ original_dir' = Compiled(original_dir)
            /\ UNCHANGED mutation_dir
       ELSE /\ mutation_dir' = [mutation_dir EXCEPT ![RunId] = Compiled(@)]
            /\ UNCHANGED original_dir
    /\ pc' = "test"
    /\ UNCHANGED <<results_dir, test_results_json, batch, cur, started, outcome>>
    /\ UNCHANGED <<invocations, concurrent, classifier>>

\* A bug for TestExecutionFails: the failure is stored as a result without
\* tests and the batch goes on.
TestExecutionFailsRecorded ==
    /\ pc = "test"
    /\ results_dir' = (RunId :> Document(TestSuiteResult(<<>>, TRUE, None))) @@ results_dir
    /\ Ended("test execution failure")
    /\ Proceed
    /\ UNCHANGED <<test_results_json, original_dir, mutation_dir, batch, started>>
    /\ UNCHANGED <<invocations, concurrent, classifier>>

\* run_test_runner, lines 109-112: the TestRunner process exits with non-zero
\* and the exception leaves the method.
TestExecutionFails ==
    /\ pc = "test"
    /\ Ended("test execution failure")
    /\ Propagate
    /\ UNCHANGED <<results_dir, test_results_json, original_dir, mutation_dir,
                   batch, started>>
    /\ UNCHANGED <<invocations, concurrent, classifier>>

\* run_test_runner, line 109: the TestRunner process exits with 0, having
\* written test_results.json.
TestExecutionSucceeds(output) ==
    /\ pc = "test"
    /\ test_results_json' = <<output>>
    /\ pc' = "move"
    /\ UNCHANGED <<results_dir, original_dir, mutation_dir, batch, cur, started,
                   outcome>>
    /\ UNCHANGED <<invocations, concurrent, classifier>>

\* A bug for MoveTestResults: a file already stored under the run id is kept.
MoveKeepsEarlier ==
    /\ pc = "move"
    /\ results_dir' = results_dir @@ (RunId :> test_results_json[1])
    /\ test_results_json' = <<>>
    /\ Ended("tested")
    /\ Proceed
    /\ UNCHANGED <<original_dir, mutation_dir, batch, started>>
    /\ UNCHANGED <<invocations, concurrent, classifier>>

\* run_test_runner, line 115: shutil.move to <test_result_filename>.json.
MoveTestResults ==
    /\ pc = "move"
    /\ results_dir' = (RunId :> test_results_json[1]) @@ results_dir
    /\ test_results_json' = <<>>
    /\ Ended("tested")
    /\ Proceed
    /\ UNCHANGED <<original_dir, mutation_dir, batch, started>>
    /\ UNCHANGED <<invocations, concurrent, classifier>>

\* A bug for ReadTestResults: the exception of a file that does not parse
\* leaves the loop, and the method, with nothing read.
ReadTestResultsAborting(dir) ==
    IF \E f \in DOMAIN dir : ~dir[f].parses THEN <<>>
    ELSE [id \in DOMAIN dir |-> dir[id].suite]

\* read_test_results, lines 62-113: a file that does not parse is logged and
\* left out.
ReadTestResults(dir) ==
    [id \in {f \in DOMAIN dir : dir[f].parses} |-> dir[id].suite]

\* App.get_test_results, lines 186-187 of app.py, once run_mutant_tester has
\* returned or failed.
GetTestResults ==
    /\ pc \in {"done", "raised"}
    /\ test_results' = ReadTestResults(results_dir)
    /\ ret' = [op |-> "get_mutation_summary", mutation_id |-> None,
               result |-> GetMutationSummary(ReadTestResults(results_dir))]
    /\ UNCHANGED pipeline

InitPipeline ==
    /\ test_results = <<>>
    /\ ret = NoCall
    /\ FreshProject

NextPipeline ==
    \/ \E mutation_results \in Batches : RunMutantTester(mutation_results)
    \/ ApplySingleMutation
    \/ ApplySingleMutationFails
    \/ CompileFails
    \/ CompileSucceeds
    \/ TestExecutionFails
    \/ \E output \in RunnerOutputs : TestExecutionSucceeds(output)
    \/ MoveTestResults
    \/ GetTestResults

SpecPipeline == InitPipeline /\ [][NextPipeline]_vars

(***************************************************************************)
(* SpecPipelineLive: SpecPipeline with the progress the code guarantees.   *)
(* The statements of run_mutant_tester run on by themselves; javac and the *)
(* TestRunner are processes awaited by subprocess.run without a timeout    *)
(* (test_runner.py lines 59 and 109), so nothing makes CompileFails,       *)
(* CompileSucceeds, TestExecutionFails or TestExecutionSucceeds happen.    *)
(***************************************************************************)
SpecPipelineLive ==
    /\ InitPipeline
    /\ [][NextPipeline]_vars
    /\ WF_vars(ApplySingleMutation \/ ApplySingleMutationFails)
    /\ WF_vars(MoveTestResults)

(***************************************************************************)
(* SpecConcurrent: the runs of the mutants of MutantIds with their steps   *)
(* interleaved.  Each run is _apply_single_mutation followed by            *)
(* run_test_runner for its own id; the runs share the results directory    *)
(* and the working directory, where the TestRunner process leaves          *)
(* test_results.json.                                                      *)
(***************************************************************************)
\* One run moves on to `to`; `output` holds what its own TestRunner process
\* wrote, if it has.  The state of the calls of run_mutant_tester stays.
At(id, to, output) ==
    /\ concurrent' = [concurrent EXCEPT ![id] = [pc |-> to, output |-> output]]
    /\ UNCHANGED <<batch, pc, cur, started, outcome, invocations>>
    /\ UNCHANGED classifier

\* The mutation of the run: one per id, the first rel_path.
MutationOf(id) == CHOOSE mutation \in Mutations : mutation.id = id

\* _apply_single_mutation, lines 123-131, for the run of id.
ConcurrentApplySingleMutation(id) ==
    /\ concurrent[id].pc = "apply"
    /\ id \notin DOMAIN mutation_dir
    /\ mutation_dir' = mutation_dir @@
            (id :> ((MutationOf(id).rel_path :> MutationOf(id).mutated_code)
                        @@ original_dir))
    /\ At(id, "compile", <<>>)
    /\ UNCHANGED <<results_dir, test_results_json, original_dir>>

\* run_test_runner, lines 66-83, for the run of id.
ConcurrentCompileFails(id) ==
    /\ concurrent[id].pc = "compile"
    /\ results_dir' = (id :> Document(CompileErrorDoc)) @@ results_dir
    /\ At(id, "done", <<>>)
    /\ UNCHANGED <<test_results_json, original_dir, mutation_dir>>

\* run_test_runner, line 67, for the run of id.
ConcurrentCompileSucceeds(id) ==
    /\ concurrent[id].pc = "compile"
    /\ mutation_dir' = [mutation_dir EXCEPT ![id] = Compiled(@)]
    /\ At(id, "test", <<>>)
    /\ UNCHANGED <<results_dir, test_results_json, original_dir>>

\* run_test_runner, lines 109-112, for the run of id.
ConcurrentTestExecutionFails(id) ==
    /\ concurrent[id].pc = "test"
    /\ At(id, "raised", <<>>)
    /\ UNCHANGED <<results_dir, test_results_json, original_dir, mutation_dir>>

\* run_test_runner, line 109, for the run of id: its TestRunner process writes
\* test_results.json in the working directory, over the file that may be there.
ConcurrentTestExecutionSucceeds(id, output) ==
    /\ concurrent[id].pc = "test"
    /\ test_results_json' = <<output>>
    /\ At(id, "move", <<output>>)
    /\ UNCHANGED <<results_dir, original_dir, mutation_dir>>

\* run_test_runner, line 115, for the run of id: shutil.move raises
\* FileNotFoundError when test_results.json is gone.
ConcurrentMoveTestResults(id) ==
    /\ concurrent[id].pc = "move"
    /\ IF test_results_json = <<>>
       THEN /\ At(id, "raised", concurrent[id].output)
            /\ UNCHANGED <<results_dir, test_results_json>>
       ELSE /\ results_dir' = (id :> test_results_json[1]) @@ results_dir
            /\ test_results_json' = <<>>
            /\ At(id, "done", concurrent[id].output)
    /\ UNCHANGED <<original_dir, mutation_dir>>

InitConcurrent ==
    /\ test_results = <<>>
    /\ ret = NoCall
    /\ results_dir = <<>>
    /\ test_results_json = <<>>
    /\ original_dir = SourceTree
    /\ mutation_dir = <<>>
    /\ batch = <<>>
    /\ pc = "idle"
    /\ cur = 0
    /\ started = {}
    /\ outcome = <<>>
    /\ invocations = 0
    /\ concurrent = [id \in MutantIds |-> [pc |-> "apply", output |-> <<>>]]

NextConcurrent ==
    \/ \E id \in MutantIds : ConcurrentApplySingleMutation(id)
    \/ \E id \in MutantIds : ConcurrentCompileFails(id)
    \/ \E id \in MutantIds : ConcurrentCompileSucceeds(id)
    \/ \E id \in MutantIds : ConcurrentTestExecutionFails(id)
    \/ \E id \in MutantIds : \E output \in RunnerOutputs :
            ConcurrentTestExecutionSucceeds(id, output)
    \/ \E id \in MutantIds : ConcurrentMoveTestResults(id)

SpecConcurrent == InitConcurrent /\ [][NextConcurrent]_vars

(***************************************************************************)
(* Vocabulary of the properties: what a call returned, and the pairing of  *)
(* a mutant's tests with the baseline's stated over positions, without the *)
(* loops of the code.                                                      *)
(***************************************************************************)
Evaluated == ret.op = "_evaluate_mutant"

Summarized == ret.op = "get_mutation_summary"

Returned == ~ret.result.raised

\* The summary the last get_mutation_summary call returned.
Summary == ret.result.value

HasBaseline == ORIGINAL_SRC_TEST_RESULTS_NAME \in DOMAIN test_results

Baseline == test_results[ORIGINAL_SRC_TEST_RESULTS_NAME]

\* The mutant of the last _evaluate_mutant call has a result that compiled.
EvaluatedCompiled ==
    /\ Evaluated
    /\ ret.mutation_id \in DOMAIN test_results
    /\ test_results[ret.mutation_id].compiled

Evaluatee == test_results[ret.mutation_id]

\* The positions <<class, test>> of the tests a result lists.
Positions(suite) ==
    UNION {{<<c, t>> : t \in 1..Len(suite.test_classes[c].test_results)} :
            c \in 1..Len(suite.test_classes)}

TestAt(suite, pos) == suite.test_classes[pos[1]].test_results[pos[2]]

ClassAt(suite, pos) == suite.test_classes[pos[1]]

\* The baseline tests a mutant's test at pos can be compared with: those of the
\* first baseline class of the same name that carry the same test_unique_id.
Counterparts(mutant, original, pos) ==
    {q \in Positions(original) :
        /\ ClassAt(original, q).test_class_name = ClassAt(mutant, pos).test_class_name
        /\ \A c \in 1..(q[1] - 1) :
              original.test_classes[c].test_class_name # ClassAt(original, q).test_class_name
        /\ TestAt(original, q).test_unique_id = TestAt(mutant, pos).test_unique_id}

\* The counterpart the comparison uses: the first of them.
Counterpart(mutant, original, pos) ==
    CHOOSE q \in Counterparts(mutant, original, pos) :
        \A r \in Counterparts(mutant, original, pos) : q[2] <= r[2]

\* The matched tests of a mutant's result, and those whose outcome changed.
Matched(mutant, original) ==
    {pos \in Positions(mutant) : Counterparts(mutant, original, pos) # {}}

Differing(mutant, original) ==
    {pos \in Matched(mutant, original) :
        TestAt(mutant, pos).is_passed #
            TestAt(original, Counterpart(mutant, original, pos)).is_passed}

\* Pairs of a baseline test and a mutant's test with the same test_unique_id,
\* whatever the class either is listed under.
SameIdPairs(mutant, original) ==
    {<<q, pos>> \in Positions(original) \X Positions(mutant) :
        TestAt(original, q).test_unique_id = TestAt(mutant, pos).test_unique_id}

(***************************************************************************)
(* C1.  A mutant whose stored result has compiled = false is STILLBORN,    *)
(* whatever its test_classes hold and whatever the baseline is, also when  *)
(* the run set has no baseline.                                            *)
(***************************************************************************)
C1_NotCompiledIsStillborn ==
    (/\ Evaluated
     /\ ret.mutation_id \in DOMAIN test_results
     /\ ~test_results[ret.mutation_id].compiled)
    => ret.result = Return(STILLBORN)

\* A result that did not compile yet lists tests, evaluated without a baseline.
C1_Witness ==
    /\ Evaluated
    /\ ret.mutation_id \in DOMAIN test_results
    /\ ~Evaluatee.compiled
    /\ Evaluatee.test_classes # <<>>
    /\ ~HasBaseline
    /\ ret.result = Return(STILLBORN)

(***************************************************************************)
(* C2.  With a baseline in the run set, a compiled mutant none of whose    *)
(* matched tests changed outcome is LIVE, also when no test is matched at  *)
(* all.  Stated for the pairing of the code and for the pairing by         *)
(* test_unique_id alone.                                                   *)
(***************************************************************************)
C2_NoDifferenceIsLive ==
    (EvaluatedCompiled /\ HasBaseline)
    => /\ Differing(Evaluatee, Baseline) = {} => ret.result = Return(LIVE)
       /\ (\A p \in SameIdPairs(Evaluatee, Baseline) :
              TestAt(Baseline, p[1]).is_passed = TestAt(Evaluatee, p[2]).is_passed)
          => ret.result = Return(LIVE)

\* The mutant lists tests and the baseline lists tests, none is matched.
C2_Witness ==
    /\ EvaluatedCompiled /\ HasBaseline
    /\ Positions(Evaluatee) # {}
    /\ Positions(Baseline) # {}
    /\ Matched(Evaluatee, Baseline) = {}
    /\ ret.result = Return(LIVE)

Counters == CompareResults(Evaluatee, Baseline)

\* C5 as claimed: total_tests is the number of baseline tests whose
\* test_unique_id the mutant's result lists too, whatever the classes, and
\* different_results the number of those whose outcome differs in the mutant's
\* (first) test of that id.
C5_PairedByIdOnly ==
    (EvaluatedCompiled /\ HasBaseline)
    => LET paired == {q \in Positions(Baseline) :
                        \E p \in SameIdPairs(Evaluatee, Baseline) : p[1] = q}
           First(q) == CHOOSE pos \in Positions(Evaluatee) :
                        /\ <<q, pos>> \in SameIdPairs(Evaluatee, Baseline)
                        /\ \A r \in Positions(Evaluatee) :
                              <<q, r>> \in SameIdPairs(Evaluatee, Baseline)
                              => (pos[1] < r[1] \/ (pos[1] = r[1] /\ pos[2] <= r[2]))
       IN  /\ Counters.total_tests = Cardinality(paired)
           /\ Counters.different_results =
                Cardinality({q \in paired :
                    TestAt(Baseline, q).is_passed # TestAt(Evaluatee, First(q)).is_passed})

\* C5 amended: total_tests is the number of tests of the mutant's result that
\* are listed under a class name the baseline lists too and whose
\* test_unique_id the first baseline class of that name lists; different_results
\* is the number of those whose is_passed differs from that of the first
\* baseline test of that id in that class.  A test without such a counterpart
\* adds nothing to either counter.
C5_PairedByClassThenId ==
    (EvaluatedCompiled /\ HasBaseline)
    => /\ Counters.total_tests = Cardinality(Matched(Evaluatee, Baseline))
       /\ Counters.different_results = Cardinality(Differing(Evaluatee, Baseline))

\* The mutant lists, under another class, a test the baseline lists: same id,
\* not matched; and a test that is matched.
C5_Witness ==
    /\ EvaluatedCompiled /\ HasBaseline
    /\ Cardinality(Matched(Evaluatee, Baseline)) = 1
    /\ \E p \in SameIdPairs(Evaluatee, Baseline) : p[2] \notin Matched(Evaluatee, Baseline)
    /\ Counters.total_tests = 1

(***************************************************************************)
(* C6.  Without a baseline in the run set get_mutation_summary aborts with *)
(* an error and returns no summary, whatever the run set holds.            *)
(***************************************************************************)
C6_NoBaselineAborts ==
    (Summarized /\ ~HasBaseline) => ret.result.raised

(***************************************************************************)
(* C7.  Every mutant handed to apply_and_test_mutations appears in         *)
(* mutation_status and in total_mutants of the summary computed afterwards *)
(* from read_test_results; a mutant whose run failed or whose document is  *)
(* unreadable is reported as stillborn.                                    *)
(***************************************************************************)
Finished == pc \in {"done", "raised"}

HandedIds == {batch[k].id : k \in 1..Len(batch)}

Readable(id) == id \in DOMAIN results_dir /\ results_dir[id].parses

\* The mutations of the batch carry distinct ids.
DistinctIds == Cardinality(HandedIds) = Len(batch)

\* Stated for the batches of distinct ids whose baseline document is stored and
\* readable.
C7_EveryMutantReported ==
    (/\ Finished /\ Summarized /\ Returned
     /\ DistinctIds
     /\ Readable(ORIGINAL_SRC_TEST_RESULTS_NAME))
    => /\ Summary.total_mutants = Cardinality(HandedIds)
       /\ \A m \in HandedIds :
            /\ m \in DOMAIN Summary.mutation_status
            /\ ~Readable(m) => Summary.mutation_status[m] = STILLBORN

(***************************************************************************)
(* C8.  In apply_and_test_mutations a failure of one mutant (workspace     *)
(* error, compile failure, test runner exiting with non-zero) never keeps  *)
(* the later mutants of the batch from being run: once the method is over, *)
(* _apply_single_mutation has been called for every mutation of the batch  *)
(* and every one of these runs has ended in some way.                      *)
(***************************************************************************)
C8_FailureDoesNotStopBatch ==
    (Finished /\ DistinctIds /\ (pc = "raised" => cur >= 1))
    => /\ started = 1..Len(batch)
       /\ \A k \in 1..Len(batch) : k \in DOMAIN outcome

(***************************************************************************)
(* C9.  mutation_score = killed / (total_mutants - stillborn) * 100 when   *)
(* total_mutants - stillborn > 0, and 0 otherwise; live and trivial        *)
(* mutants count in the denominator only.  5 mutants, 1 stillborn, 2       *)
(* killed (and 2 live) give 50.                                            *)
(***************************************************************************)
C9_MutationScore ==
    /\ (Summarized /\ Returned)
       => LET killed == Cardinality({m \in DOMAIN Summary.mutation_status :
                            Summary.mutation_status[m] = KILLED})
              stillborn == Cardinality({m \in DOMAIN Summary.mutation_status :
                            Summary.mutation_status[m] = STILLBORN})
              effective == Summary.total_mutants - stillborn
          IN  /\ Summary.mutation_score.den > 0
              /\ effective > 0 =>
                    Summary.mutation_score.num * effective
                        = killed * 100 * Summary.mutation_score.den
              /\ effective <= 0 => Summary.mutation_score.num = 0
    /\ MutationScore(2, 1, 5) = [num |-> 50, den |-> 1]

\* A killed and a live (or trivial) mutant: half of the effective mutants.
C9_Witness ==
    /\ Summarized /\ Returned
    /\ Summary.mutant_status_counts[KILLED] = 1
    /\ Summary.mutant_status_counts[STILLBORN] = 0
    /\ Summary.total_mutants = 2
    /\ Summary.mutation_score = [num |-> 50, den |-> 1]

(***************************************************************************)
(* C10.  Whenever get_mutation_summary returns, mutation_score lies in     *)
(* [0, 100] (killed <= total_mutants - stillborn when that is positive)    *)
(* and is 0 when total_mutants equals the stillborn count.                 *)
(***************************************************************************)
C10_ScoreInRange ==
    (Summarized /\ Returned)
    => /\ Summary.mutation_score.den > 0
       /\ 0 <= Summary.mutation_score.num
       /\ Summary.mutation_score.num <= 100 * Summary.mutation_score.den
       /\ Summary.total_mutants - Summary.mutant_status_counts[STILLBORN] > 0
            => Summary.mutant_status_counts[KILLED]
                <= Summary.total_mutants - Summary.mutant_status_counts[STILLBORN]
       /\ Summary.total_mutants = Summary.mutant_status_counts[STILLBORN]
            => Summary.mutation_score.num = 0

\* Every mutant is stillborn (at least one): the score is 0.
C10_Witness ==
    /\ Summarized /\ Returned
    /\ Summary.total_mutants > 0
    /\ Summary.total_mutants = Summary.mutant_status_counts[STILLBORN]
    /\ Summary.mutation_score.num = 0

(***************************************************************************)
(* Vocabulary of the properties of test_impact and of the counts.          *)
(***************************************************************************)
\* The run ids of the run set other than the baseline id.
NonBaselineIds == DOMAIN test_results \ {ORIGINAL_SRC_TEST_RESULTS_NAME}

\* The mutants the last summary reports with the status given.
WithStatus(status) ==
    {m \in DOMAIN Summary.mutation_status : Summary.mutation_status[m] = status}

\* The mutants the last summary classified KILLED or TRIVIAL.
Killers == WithStatus(KILLED) \cup WithStatus(TRIVIAL)

\* The tests of a result with is_passed = false that key names.
FailingAt(suite, key) ==
    {pos \in Positions(suite) :
        /\ ~TestAt(suite, pos).is_passed
        /\ ClassAt(suite, pos).test_class_name \o "#" \o TestAt(suite, pos).test_name
             = key}

\* The keys the failing tests of a result name.
FailingKeys(suite) ==
    {ClassAt(suite, pos).test_class_name \o "#" \o TestAt(suite, pos).test_name :
        pos \in {q \in Positions(suite) : ~TestAt(suite, q).is_passed}}

\* Over the mutants `ids`: the number of their tests that key names, that have
\* is_passed = false and that are matched to a baseline test.
RECURSIVE MatchedFailures(_, _)
MatchedFailures(ids, key) ==
    IF ids = {} THEN 0
    ELSE LET m == CHOOSE id \in ids : TRUE
         IN  Cardinality(FailingAt(test_results[m], key)
                            \cap Matched(test_results[m], Baseline))
             + MatchedFailures(ids \ {m}, key)

(***************************************************************************)
(* C11.  Whenever get_mutation_summary returns, total_mutants is the       *)
(* number of run ids of the run set other than "original": it is never     *)
(* negative and it is the number of mutants classified.                    *)
(***************************************************************************)
C11_TotalIsNonBaselineCount ==
    (Summarized /\ Returned)
    => /\ Summary.total_mutants = Cardinality(NonBaselineIds)
       /\ Summary.total_mutants >= 0
       /\ Summary.total_mutants = Cardinality(DOMAIN Summary.mutation_status)

(***************************************************************************)
(* C12.  Whenever get_mutation_summary returns, mutation_status has one    *)
(* entry for each run id other than "original" and none for "original",    *)
(* each status count is the number of entries with that status, and live + *)
(* killed + stillborn + trivial is total_mutants.                          *)
(***************************************************************************)
C12_EveryMutantClassifiedOnce ==
    (Summarized /\ Returned)
    => /\ DOMAIN Summary.mutation_status = NonBaselineIds
       /\ \A m \in NonBaselineIds : Summary.mutation_status[m] \in MutantStatus
       /\ \A s \in MutantStatus :
            Summary.mutant_status_counts[s] = Cardinality(WithStatus(s))
       /\ Summary.mutant_status_counts[LIVE] + Summary.mutant_status_counts[KILLED]
            + Summary.mutant_status_counts[STILLBORN]
            + Summary.mutant_status_counts[TRIVIAL] = Summary.total_mutants

(***************************************************************************)
(* C13.  Every key of test_impact names a test with is_passed = false in   *)
(* the result of a mutant classified KILLED or TRIVIAL, and the results of *)
(* the LIVE and STILLBORN mutants add nothing: test_impact is what the     *)
(* summary of the run set without these mutants holds.                     *)
(***************************************************************************)
C13_ImpactOnlyFromKillers ==
    (Summarized /\ Returned)
    => /\ \A key \in BagToSet(Summary.test_impact) :
            \E m \in Killers : FailingAt(test_results[m], key) # {}
       /\ LET kept == Killers \cup (DOMAIN test_results \ NonBaselineIds)
               without == GetMutationSummary([id \in kept |-> test_results[id]])
           IN  /\ ~without.raised
               /\ without.value.test_impact = Summary.test_impact

\* A LIVE mutant with a failing test whose key test_impact does not hold, next
\* to a mutant that is credited.
C13_Witness ==
    /\ Summarized /\ Returned
    /\ Summary.test_impact # EmptyBag
    /\ \E m \in WithStatus(LIVE) :
          \E key \in FailingKeys(test_results[m]) :
              key \notin BagToSet(Summary.test_impact)

(***************************************************************************)
(* C14.  For every key, test_impact counts the tests of the KILLED and     *)
(* TRIVIAL mutants' results that the key names, that have is_passed =      *)
(* false and that are matched to a baseline test; a failing test without a *)
(* baseline counterpart adds nothing.                                      *)
(***************************************************************************)
C14_ImpactOnlyFromMatched ==
    (Summarized /\ Returned)
    => \A key \in UNION {FailingKeys(test_results[m]) : m \in NonBaselineIds} :
          CopiesIn(key, Summary.test_impact) = MatchedFailures(Killers, key)

\* No class of the result lists two tests with the same test_unique_id.
DistinctUniqueIds(suite) ==
    \A pos \in Positions(suite) : \A q \in Positions(suite) :
        (pos[1] = q[1] /\ TestAt(suite, pos).test_unique_id = TestAt(suite, q).test_unique_id)
        => pos = q

(***************************************************************************)
(* C15.  Stated for results whose classes list no test_unique_id twice.    *)
(* For every key, test_impact[key] is the number of distinct mutants       *)
(* classified KILLED or TRIVIAL whose result lists a failing test the key  *)
(* names; it never exceeds the number of KILLED and TRIVIAL mutants.       *)
(***************************************************************************)
C15_ImpactCountsMutants ==
    (/\ Summarized /\ Returned
     /\ \A m \in NonBaselineIds : DistinctUniqueIds(test_results[m]))
    => \A key \in BagToSet(Summary.test_impact) :
          /\ CopiesIn(key, Summary.test_impact) <= Cardinality(Killers)
          /\ CopiesIn(key, Summary.test_impact)
                = Cardinality({m \in Killers : FailingAt(test_results[m], key) # {}})

(***************************************************************************)
(* C16.  For a mutant id without an entry in the run set _evaluate_mutant  *)
(* returns STILLBORN, with or without a baseline entry.                    *)
(***************************************************************************)
C16_MissingIsStillborn ==
    (Evaluated /\ ret.mutation_id \notin DOMAIN test_results)
    => ret.result = Return(STILLBORN)

\* An id the run set does not hold, evaluated on a run set that holds another
\* mutant's compiled result and no baseline.
C16_Witness ==
    /\ Evaluated
    /\ ret.mutation_id \notin DOMAIN test_results
    /\ ~HasBaseline
    /\ \E m \in DOMAIN test_results : test_results[m].compiled
    /\ ret.result = Return(STILLBORN)

(***************************************************************************)
(* C17.  A save under a run id that already has a stored document (the     *)
(* compile-failure write of lines 80-81 or the move of line 115) leaves    *)
(* one document under that id, the later result, and leaves the documents  *)
(* of the other ids alone; read_test_results then has one entry for the    *)
(* id, with the later result (given that this document parses).            *)
(***************************************************************************)
\* The step at hand stores a document: the compile-failure write, or the move.
Saves == pc = "move" \/ (pc = "compile" /\ pc' # "test")

LaterResult == IF pc = "move" THEN test_results_json[1] ELSE Document(CompileErrorDoc)

C17_LaterSaveReplaces ==
    [][Saves =>
        /\ DOMAIN results_dir' = DOMAIN results_dir \cup {RunId}
        /\ results_dir'[RunId] = LaterResult
        /\ \A id \in DOMAIN results_dir \ {RunId} : results_dir'[id] = results_dir[id]
        /\ LET read == ReadTestResults(results_dir')
           IN  IF LaterResult.parses
               THEN RunId \in DOMAIN read /\ read[RunId] = LaterResult.suite
               ELSE RunId \notin DOMAIN read]_vars

\* The second call of run_mutant_tester stored a compile failure for the
\* baseline, whose document of the first call, read before, had compiled.
C17_Witness ==
    /\ invocations = 2
    /\ 0 \in DOMAIN outcome
    /\ outcome[0] = "compile failure"
    /\ HasBaseline
    /\ Baseline.compiled
    /\ results_dir[ORIGINAL_SRC_TEST_RESULTS_NAME] = Document(CompileErrorDoc)
    /\ ~ReadTestResults(results_dir)[ORIGINAL_SRC_TEST_RESULTS_NAME].compiled

(***************************************************************************)
(* C18.  read_test_results never aborts because of a stored document that  *)
(* does not parse: the run set it returns holds exactly the ids of the     *)
(* documents that parse, each with the content of its own document.        *)
(***************************************************************************)
C18_UnparsableSkipped ==
    [][<<test_results, ret>>' # <<test_results, ret>> =>
        /\ DOMAIN test_results' =
                {id \in DOMAIN results_dir : results_dir[id].parses}
        /\ \A id \in DOMAIN test_results' : test_results'[id] = results_dir[id].suite
        /\ ret'.op = "get_mutation_summary"]_vars

\* A document that does not parse next to two that do, all read.
C18_Witness ==
    /\ Summarized
    /\ test_results = ReadTestResults(results_dir)
    /\ \E id \in DOMAIN results_dir :
          ~results_dir[id].parses /\ id \notin DOMAIN test_results
    /\ Cardinality(DOMAIN test_results) = 2

(***************************************************************************)
(* C19.  When a later call of apply_and_test_mutations, with a batch of    *)
(* distinct ids, comes to a mutant id whose run of an earlier call         *)
(* completed (its document is stored), the run executes: the workspace is  *)
(* made and the run goes on to compile.                                    *)
(***************************************************************************)
C19_RerunExecutes ==
    [][(/\ pc = "apply"
        /\ invocations >= 2
        /\ DistinctIds
        /\ batch[cur].id \in DOMAIN results_dir)
       => pc' = "compile"]_vars

(***************************************************************************)
(* C20.  A mutant whose code compiled and whose TestRunner process exited  *)
(* with non-zero fails the call of run_mutant_tester; no document is       *)
(* stored under its id, in particular none with compiled = true and no     *)
(* test classes, and no summary reports it as live.                        *)
(***************************************************************************)
C20_TestFailureNotLive ==
    \A k \in DOMAIN outcome \ {0} :
        outcome[k] = "test execution failure"
        => /\ pc = "raised" /\ cur = k
           /\ batch[k].id \notin DOMAIN results_dir
           /\ batch[k].id \notin DOMAIN ReadTestResults(results_dir)
           /\ (Summarized /\ Returned) => batch[k].id \notin WithStatus(LIVE)

\* The second mutant of the batch failed so, after the first was tested; the
\* summary read afterwards reports the first only.
C20_Witness ==
    /\ 2 \in DOMAIN outcome
    /\ outcome[2] = "test execution failure"
    /\ outcome[1] = "tested"
    /\ Summarized /\ Returned
    /\ test_results = ReadTestResults(results_dir)
    /\ DOMAIN Summary.mutation_status = {batch[1].id}
    /\ batch[2].id # batch[1].id

(***************************************************************************)
(* Vocabulary of the properties of the runs of one call.                   *)
(***************************************************************************)
\* The run id of run k of the call at hand: 0 the baseline.
IdOf(k) == IF k = 0 THEN ORIGINAL_SRC_TEST_RESULTS_NAME ELSE batch[k].id

\* run_test_runner returned normally for run k.
ReturnedNormally(k) ==
    k \in DOMAIN outcome /\ outcome[k] \in {"tested", "compile failure"}

(***************************************************************************)
(* C21.  When the compiler exits with non-zero, run_test_runner stores     *)
(* under the run id a document with compiled = false, a compile_error text *)
(* and no test classes, and returns without running the tests; no stored   *)
(* document with compiled = false lists test classes or lacks              *)
(* compile_error.                                                          *)
(***************************************************************************)
C21_CompileFailureStored ==
    /\ \A k \in DOMAIN outcome :
          outcome[k] = "compile failure"
          => /\ IdOf(k) \in DOMAIN results_dir
             /\ results_dir[IdOf(k)].parses
             /\ ~results_dir[IdOf(k)].suite.compiled
             /\ results_dir[IdOf(k)].suite.test_classes = <<>>
             /\ results_dir[IdOf(k)].suite.compile_error # None
             /\ ~(cur = k /\ pc \in {"test", "move"})
    /\ \A id \in DOMAIN results_dir :
          (results_dir[id].parses /\ ~results_dir[id].suite.compiled)
          => /\ results_dir[id].suite.test_classes = <<>>
             /\ results_dir[id].suite.compile_error # None

\* The first mutant did not compile; its document is stored and the batch is
\* at the second mutant.
C21_Witness ==
    /\ 1 \in DOMAIN outcome
    /\ outcome[1] = "compile failure"
    /\ outcome[0] = "tested"
    /\ results_dir[batch[1].id] = Document(CompileErrorDoc)
    /\ pc = "apply" /\ cur = 2

(***************************************************************************)
(* C22.  Whenever run_test_runner has returned normally for a run (compile *)
(* failure or tests run), a document is stored under its run id, from the  *)
(* moment of return on.                                                    *)
(***************************************************************************)
C22_ReturnedRunIsStored ==
    \A k \in DOMAIN outcome :
        ReturnedNormally(k) => IdOf(k) \in DOMAIN results_dir

\* The baseline run has just returned, the first mutant is yet to be applied.
C22_Witness ==
    /\ ReturnedNormally(0)
    /\ outcome[0] = "tested"
    /\ pc = "apply" /\ cur = 1 /\ started = {}
    /\ invocations = 1
    /\ DOMAIN results_dir = {ORIGINAL_SRC_TEST_RESULTS_NAME}

(***************************************************************************)
(* C23.  When the runs of two different ids are interleaved, the document  *)
(* stored under the id of a run whose tests ran is the one its own         *)
(* TestRunner process wrote, and no run fails because of the other: a run  *)
(* whose TestRunner process exited with 0 stores its document.             *)
(***************************************************************************)
C23_OwnResultsStored ==
    \A id \in DOMAIN concurrent :
        /\ (concurrent[id].pc = "done" /\ concurrent[id].output # <<>>)
           => /\ id \in DOMAIN results_dir
              /\ results_dir[id] = concurrent[id].output[1]
        /\ concurrent[id].pc = "raised" => concurrent[id].output = <<>>

(***************************************************************************)
(* C24.  _apply_single_mutation for one mutant changes no file of another  *)
(* mutant's workspace and no file of the baseline tree: it writes only     *)
(* inside mutation_dir/<id>.                                               *)
(***************************************************************************)
C24_WorkspacesIsolated ==
    [][pc = "apply" =>
        /\ original_dir' = original_dir
        /\ DOMAIN mutation_dir \subseteq DOMAIN mutation_dir'
        /\ DOMAIN mutation_dir' \subseteq DOMAIN mutation_dir \cup {batch[cur].id}
        /\ \A id \in DOMAIN mutation_dir \ {batch[cur].id} :
              mutation_dir'[id] = mutation_dir[id]]_vars

\* Two workspaces were made, the second after the first: each holds its own
\* mutated file, the baseline's file is as it was.
C24_Witness ==
    /\ started = {1, 2}
    /\ DOMAIN mutation_dir = {batch[1].id, batch[2].id}
    /\ batch[1].id # batch[2].id
    /\ \A k \in {1, 2} :
          /\ mutation_dir[batch[k].id] # <<>>
          /\ mutation_dir[batch[k].id][batch[k].rel_path] = batch[k].mutated_code
    /\ original_dir["A.java"] = SourceTree["A.java"]

(***************************************************************************)
(* C25.  Stated for the first call of run_mutant_tester on a baseline      *)
(* that compiled.  A mutant's workspace, once _apply_single_mutation has   *)
(* made it, holds the same paths as the baseline tree and differs from it  *)
(* in the content of the file at rel_path only, also after its run.        *)
(***************************************************************************)
C25_OneFileDiffers ==
    \A id \in DOMAIN mutation_dir :
        (/\ mutation_dir[id] # <<>>
         /\ invocations = 1
         /\ BUILD_DIR \in DOMAIN original_dir)
        => /\ DOMAIN mutation_dir[id] = DOMAIN original_dir
           /\ {path \in DOMAIN original_dir :
                    mutation_dir[id][path] # original_dir[path]}
                = {MutationOf(id).rel_path}

(***************************************************************************)
(* C26.  No operation of the engine creates, changes or deletes anything   *)
(* in the baseline tree original_dir: it stays as App.init copied it.      *)
(***************************************************************************)
C26_BaselineTreeUnchanged == original_dir = SourceTree

(***************************************************************************)
(* C27.  When the directory mutation_dir/<id> exists, _apply_single_       *)
(* mutation fails with an error, leaves the files of that directory (and   *)
(* every other) as they were, and the run goes no further: no compile, no  *)
(* document.                                                               *)
(***************************************************************************)
C27_ExistingWorkspaceRefused ==
    [][(pc = "apply" /\ batch[cur].id \in DOMAIN mutation_dir) =>
        /\ pc' = "raised"
        /\ mutation_dir' = mutation_dir
        /\ results_dir' = results_dir
        /\ original_dir' = original_dir]_vars

\* The workspace of an earlier, compiled run is there as that run left it and
\* the call for the same id has failed.
C27_Witness ==
    /\ pc = "raised"
    /\ cur \in DOMAIN outcome
    /\ outcome[cur] = "workspace error"
    /\ batch[cur].id \in DOMAIN mutation_dir
    /\ BUILD_DIR \in DOMAIN mutation_dir[batch[cur].id]
    /\ mutation_dir[batch[cur].id][batch[cur].rel_path] = batch[cur].mutated_code

(***************************************************************************)
(* C28.  In the workflow of App the baseline's document is stored before   *)
(* any mutant's workspace is made, the baseline run of a call has returned *)
(* before _apply_single_mutation is called, and no summary is returned for *)
(* a run set read after run_mutant_tester that lacks the baseline.         *)
(***************************************************************************)
C28_BaselineFirst ==
    /\ mutation_dir # <<>> => ORIGINAL_SRC_TEST_RESULTS_NAME \in DOMAIN results_dir
    /\ started # {} => ReturnedNormally(0)
    /\ (/\ Summarized /\ Returned
        /\ invocations >= 1
        /\ test_results = ReadTestResults(results_dir))
       => HasBaseline

(***************************************************************************)
(* C29.  Every compile and every test invocation ends, and so does every   *)
(* call of run_mutant_tester: it returns or fails.                         *)
(***************************************************************************)
C29_InvocationsEnd ==
    /\ (pc = "compile") ~> (pc # "compile")
    /\ (pc = "test") ~> (pc # "test")
    /\ (pc \in {"apply", "compile", "test", "move"}) ~> Finished

(***************************************************************************)
(* C30.  For every key, test_impact counts the tests of the KILLED and     *)
(* TRIVIAL mutants' results that the key names and whose outcome differs   *)
(* from that of their baseline counterpart, whichever way it flipped; so a *)
(* test failing in both earns nothing and every KILLED or TRIVIAL mutant   *)
(* credits a test.                                                         *)
(***************************************************************************)
\* The tests of a result that key names.
NamedBy(suite, key) ==
    {pos \in Positions(suite) :
        ClassAt(suite, pos).test_class_name \o "#" \o TestAt(suite, pos).test_name = key}

\* The keys of the tests the mutants' results list.
ListedKeys ==
    UNION {{ClassAt(test_results[m], pos).test_class_name \o "#"
                \o TestAt(test_results[m], pos).test_name :
                    pos \in Positions(test_results[m])} : m \in NonBaselineIds}

\* Over the mutants `ids`: the number of their tests that key names and whose
\* outcome differs from the baseline's.
RECURSIVE DifferingNamed(_, _)
DifferingNamed(ids, key) ==
    IF ids = {} THEN 0
    ELSE LET m == CHOOSE id \in ids : TRUE
         IN  Cardinality(NamedBy(test_results[m], key)
                            \cap Differing(test_results[m], Baseline))
             + DifferingNamed(ids \ {m}, key)

C30_CreditOnlyForDiffering ==
    (Summarized /\ Returned)
    => /\ \A key \in ListedKeys :
            CopiesIn(key, Summary.test_impact) = DifferingNamed(Killers, key)
       /\ \A m \in Killers :
            \E key \in BagToSet(Summary.test_impact) :
                NamedBy(test_results[m], key) \cap Differing(test_results[m], Baseline) # {}

====
